---------------------------- MODULE Spec2Model ----------------------------
(***************************************************************************)
(* ClipGenius backend: the analyze / results request handlers of           *)
(* backend/main.py together with the services they call                    *)
(* (services/youtube.py, services/ai.py, services/database.py).            *)
(*                                                                         *)
(* Strings that the code inspects character by character (URLs, video      *)
(* ids, provider error texts, titles) are sequences of one-character       *)
(* strings.  Fixed messages that are only passed through are TLA+ strings. *)
(* Every request handler runs in its own thread (FastAPI runs a def        *)
(* endpoints in a thread pool); the only shared state is cache.json.       *)
(***************************************************************************)
EXTENDS Integers, Sequences, FiniteSets, TLC

VARIABLES
    file,       \* cache.json on disk (CACHE_FILE)
    api_key,    \* OPENROUTER_API_KEY is set (read once at import)
    reqs,       \* every request received so far, in order of arrival
    writeLog,   \* history: indices of the requests whose json.dump completed, in order
    probe       \* one direct call of a service function: its arguments and its result

vars == <<file, api_key, reqs, writeLog, probe>>

(***************************************************************************)
(* Bounds of the model.                                                    *)
(***************************************************************************)
MaxReq == 2          \* requests received in one behaviour
MaxInFlight == 2     \* requests being handled at the same time

(***************************************************************************)
(* Character-level helpers (Python str operations used by the code).       *)
(***************************************************************************)
LowerLetters == <<"a","b","c","d","e","f","g","h","i","j","k","l","m","n","o","p","q","r","s","t","u","v","w","x","y","z">>
UpperLetters == <<"A","B","C","D","E","F","G","H","I","J","K","L","M","N","O","P","Q","R","S","T","U","V","W","X","Y","Z">>
DigitsEtc == <<"0","1","2","3","4","5","6","7","8","9","_","-">>

Range(s) == {s[i] : i \in DOMAIN s}

\* the character class [a-zA-Z0-9_-]
IdChars == Range(LowerLetters) \cup Range(UpperLetters) \cup Range(DigitsEtc)

\* the {11} of the three patterns
IdLen == 11

\* str.lower() on one character
LowerChar(c) ==
    IF \E i \in DOMAIN UpperLetters : UpperLetters[i] = c
    THEN LowerLetters[CHOOSE i \in DOMAIN UpperLetters : UpperLetters[i] = c]
    ELSE c

\* str.lower()
Lower(s) == [i \in DOMAIN s |-> LowerChar(s[i])]

\* sub in s
Contains(s, sub) ==
    \E p \in 1..(Len(s) - Len(sub) + 1) : SubSeq(s, p, p + Len(sub) - 1) = sub

\* None / no match
NotFound == <<>>

(***************************************************************************)
(* services/youtube.py: extract_video_id                                   *)
(***************************************************************************)
WatchMarker == <<"y","o","u","t","u","b","e",".","c","o","m","/","w","a","t","c","h","?","v","=">>
ShortMarker == <<"y","o","u","t","u",".","b","e","/">>
EmbedMarker == <<"y","o","u","t","u","b","e",".","c","o","m","/","e","m","b","e","d","/">>

\* mutant: the embed form is tried first
patternsEmbedFirst == <<EmbedMarker, ShortMarker, WatchMarker>>

\* the list of patterns, in the order they are tried
patterns == <<WatchMarker, ShortMarker, EmbedMarker>>

\* the pattern (?:marker)([a-zA-Z0-9_-]{11}) matches at position p of url
MatchAt(url, marker, p) ==
    /\ p + Len(marker) + IdLen - 1 <= Len(url)
    /\ SubSeq(url, p, p + Len(marker) - 1) = marker
    /\ \A k \in 0..(IdLen - 1) : url[p + Len(marker) + k] \in IdChars

\* re.search(pattern, url): group(1) of the leftmost match, or no match
Search(marker, url) ==
    LET hits == {p \in 1..Len(url) : MatchAt(url, marker, p)}
    IN  IF hits = {} THEN NotFound
        ELSE LET p == CHOOSE q \in hits : \A r \in hits : q <= r
             IN  SubSeq(url, p + Len(marker), p + Len(marker) + IdLen - 1)

\* the first pattern, in list order, that matches
extract_video_id(youtube_url) ==
    LET matching == {i \in DOMAIN patterns : Search(patterns[i], youtube_url) # NotFound}
    IN  IF matching = {} THEN NotFound
        ELSE Search(patterns[CHOOSE i \in matching : \A j \in matching : i <= j], youtube_url)


(***************************************************************************)
(* services/youtube.py: fetch_transcript                                   *)
(*                                                                         *)
(* What YouTubeTranscriptApi().fetch does is an input: either the snippets *)
(* of the video or an exception whose str() is detail.                     *)
(***************************************************************************)
Hello == <<"H","e","l","l","o">>
World == <<"w","o","r","l","d">>

Snippet(text, start, duration) == [text |-> text, start |-> start, duration |-> duration]

ProviderOk(snippets) == [ok |-> TRUE, snippets |-> snippets, detail |-> <<>>]
ProviderRaises(detail) == [ok |-> FALSE, snippets |-> <<>>, detail |-> detail]

DetailDisabled == <<"S","u","b","t","i","t","l","e","s"," ","a","r","e"," ","D","I","S","A","B","L","E","D">>
DetailOther == <<"H","T","T","P"," ","4","2","9">>

ProviderOutcomes ==
    { ProviderOk(<<Snippet(Hello, 0, 1), Snippet(World, 1, 1)>>),
      ProviderOk(<<>>),
      ProviderRaises(DetailDisabled),
      ProviderRaises(DetailOther) }

\* " ".join(texts)
RECURSIVE JoinSpace(_)
JoinSpace(texts) ==
    IF Len(texts) = 0 THEN <<>>
    ELSE IF Len(texts) = 1 THEN texts[1]
    ELSE texts[1] \o <<" ">> \o JoinSpace(Tail(texts))

TranscriptFailure(error) ==
    [success |-> FALSE, transcript |-> <<>>, text |-> <<>>, error |-> error]

\* mutant: the substring tests are made on str(e) as it is, not lowercased
ClassifyCaseSensitive(detail) ==
    IF Contains(detail, <<"d","i","s","a","b","l","e","d">>)
    THEN <<"Transcripts are disabled for this video.">>
    ELSE IF \/ Contains(detail, <<"n","o"," ","t","r","a","n","s","c","r","i","p","t">>)
            \/ Contains(detail, <<"n","o","t"," ","f","o","u","n","d">>)
    THEN <<"No transcript found for this video. It might not have captions.">>
    ELSE IF \/ Contains(detail, <<"u","n","a","v","a","i","l","a","b","l","e">>)
            \/ Contains(detail, <<"p","r","i","v","a","t","e">>)
    THEN <<"Video is unavailable. It might be private or deleted.">>
    ELSE <<"Failed to fetch transcript: ", detail>>

\* the except branch: the substring tests on str(e).lower(), in order
ClassifyFetchError(detail) ==
    LET error_msg == Lower(detail)
    IN  IF Contains(error_msg, <<"d","i","s","a","b","l","e","d">>)
        THEN <<"Transcripts are disabled for this video.">>
        ELSE IF \/ Contains(error_msg, <<"n","o"," ","t","r","a","n","s","c","r","i","p","t">>)
                \/ Contains(error_msg, <<"n","o","t"," ","f","o","u","n","d">>)
        THEN <<"No transcript found for this video. It might not have captions.">>
        ELSE IF \/ Contains(error_msg, <<"u","n","a","v","a","i","l","a","b","l","e">>)
                \/ Contains(error_msg, <<"p","r","i","v","a","t","e">>)
        THEN <<"Video is unavailable. It might be private or deleted.">>
        ELSE <<"Failed to fetch transcript: ", detail>>

fetch_transcript(outcome) ==
    IF outcome.ok
    THEN LET transcript_list ==
                 [i \in DOMAIN outcome.snippets |->
                     Snippet(outcome.snippets[i].text, outcome.snippets[i].start,
                             outcome.snippets[i].duration)]
         IN  [success |-> TRUE,
              transcript |-> transcript_list,
              text |-> JoinSpace([i \in DOMAIN transcript_list |-> transcript_list[i].text]),
              error |-> <<>>]
    ELSE TranscriptFailure(ClassifyFetchError(outcome.detail))

(***************************************************************************)
(* Highlights and JSON values.                                             *)
(*                                                                         *)
(* A highlight is a JSON object; a key the object lacks has the value      *)
(* Missing.  The value under "timestamps" is either a JSON list of         *)
(* objects or some other JSON value (null).                                *)
(***************************************************************************)
Missing == "<missing>"

Highlight(seconds, time, reason) == [seconds |-> seconds, time |-> time, reason |-> reason]

JList(items) == [t |-> "list", items |-> items]
JNull == [t |-> "null", items |-> <<>>]

H0 == Highlight(0, "0:00", "Opening")
H90 == Highlight(90, "1:30", "Key point")
HNoReason == Highlight(5, "0:05", Missing)

(***************************************************************************)
(* services/ai.py: analyze_transcript                                      *)
(*                                                                         *)
(* The model's text is a sequence of tokens: the code fence, the word json, *)
(* white space, prose, and whole JSON documents.  JsonDoc is json.loads on *)
(* one document.                                                           *)
(***************************************************************************)
\* the three-backquote code fence marker
Fence == "FENCE"
WhiteSpace == {"\n", " "}

JDict(has_timestamps, timestamps) ==
    [t |-> "dict", has_timestamps |-> has_timestamps, timestamps |-> timestamps]
JOther(t) == [t |-> t, has_timestamps |-> FALSE, timestamps |-> JNull]

\* json.loads of one token: the parsed value, or JOther("invalid") for JSONDecodeError
JsonDoc(tok) ==
    CASE tok = "{timestamps: [H0]}" -> JDict(TRUE, JList(<<H0>>))
      [] tok = "{timestamps: [H90, H0, H0]}" -> JDict(TRUE, JList(<<H90, H0, H0>>))
      [] tok = "{timestamps: [HNoReason]}" -> JDict(TRUE, JList(<<HNoReason>>))
      [] tok = "{timestamps: null}" -> JDict(TRUE, JNull)
      [] tok = "{moments: []}" -> JDict(FALSE, JNull)
      [] tok = "[H0]" -> JOther("list")
      [] OTHER -> JOther("invalid")

\* str.strip()
RECURSIVE LStrip(_)
LStrip(s) == IF Len(s) > 0 /\ s[1] \in WhiteSpace THEN LStrip(Tail(s)) ELSE s
RECURSIVE RStrip(_)
RStrip(s) ==
    IF Len(s) > 0 /\ s[Len(s)] \in WhiteSpace THEN RStrip(SubSeq(s, 1, Len(s) - 1)) ELSE s
Strip(s) == RStrip(LStrip(s))

\* str.split(fence): the pieces between fences
RECURSIVE SplitFence(_, _)
SplitFence(s, piece) ==
    IF Len(s) = 0 THEN <<piece>>
    ELSE IF s[1] = Fence THEN <<piece>> \o SplitFence(Tail(s), <<>>)
    ELSE SplitFence(Tail(s), Append(piece, s[1]))

\* lines 102-109: strip, drop one layer of code fence, strip again
StripFence(content) ==
    LET response_text == Strip(content)
        inner == IF Len(response_text) > 0 /\ response_text[1] = Fence
                 THEN LET piece == SplitFence(response_text, <<>>)[2]
                      IN  IF Len(piece) > 0 /\ piece[1] = "json" THEN Tail(piece) ELSE piece
                 ELSE response_text
    IN  Strip(inner)

\* json.loads(response_text)
json_loads(response_text) ==
    IF Len(response_text) = 1 THEN JsonDoc(response_text[1]) ELSE JOther("invalid")

\* What requests.post does is an input.
ReplyTimeout == [kind |-> "timeout", status_code |-> 0, message |-> "", content |-> <<>>]
ReplyConnectionError ==
    [kind |-> "error", status_code |-> 0, message |-> "Connection refused", content |-> <<>>]
ReplyStatus(status_code, message) ==
    [kind |-> "response", status_code |-> status_code, message |-> message, content |-> <<>>]
ReplyContent(content) ==
    [kind |-> "response", status_code |-> 200, message |-> "", content |-> content]

EngineReplies ==
    { ReplyTimeout,
      ReplyStatus(429, "Rate limit exceeded"),
      ReplyContent(<<"{timestamps: [H0]}">>),
      ReplyContent(<<Fence, "json", "\n", "{timestamps: [H90, H0, H0]}", "\n", Fence>>),
      ReplyContent(<<"{timestamps: [HNoReason]}">>),
      ReplyContent(<<"Here", "{timestamps: [H0]}">>) }

AiFailure(error, posted) ==
    [success |-> FALSE, timestamps |-> JNull, error |-> error, posted |-> posted]
AiSuccess(timestamps) ==
    [success |-> TRUE, timestamps |-> timestamps, error |-> <<>>, posted |-> TRUE]

\* mutant: the prompt is built without reading the first and last segment
PromptNeverRaises(transcript_segments) == FALSE

\* the prompt (ai.py 36-44) reads transcript_segments[0] and [-1]: IndexError
\* on an empty list, raised inside the try block before requests.post
PromptRaises(transcript_segments) == Len(transcript_segments) = 0

\* posted records whether requests.post was reached
analyze_transcript(transcript_text, transcript_segments, key, reply) ==
    IF ~key
    THEN AiFailure(<<"OpenRouter API key not configured. Please add OPENROUTER_API_KEY to your .env file.">>, FALSE)
    ELSE IF PromptRaises(transcript_segments)
    THEN AiFailure(<<"AI analysis failed: ", "list index out of range">>, FALSE)
    ELSE IF reply.kind = "timeout"
    THEN AiFailure(<<"AI request timed out. Please try again.">>, TRUE)
    ELSE IF reply.kind = "error"
    THEN AiFailure(<<"AI analysis failed: ", reply.message>>, TRUE)
    ELSE IF reply.status_code # 200
    THEN AiFailure(<<"OpenRouter API error: ", reply.message>>, TRUE)
    ELSE LET parsed == json_loads(StripFence(reply.content))
         IN  IF parsed.t = "invalid"
             THEN AiFailure(<<"Failed to parse AI response: ", "Expecting value">>, TRUE)
             ELSE IF parsed.t # "dict"
             THEN AiFailure(<<"AI analysis failed: ", "list object has no attribute get">>, TRUE)
             ELSE AiSuccess(IF parsed.has_timestamps THEN parsed.timestamps ELSE JList(<<>>))

(***************************************************************************)
(* services/database.py                                                    *)
(*                                                                         *)
(* cache.json is absent, holds a JSON mapping, or holds text json.load     *)
(* rejects (empty or partly written: "corrupt").                           *)
(***************************************************************************)
EmptyMap == [k \in {} |-> {}]

FileAbsent == [state |-> "absent", data |-> EmptyMap]
FileCorrupt == [state |-> "corrupt", data |-> EmptyMap]
FileJson(cache) == [state |-> "json", data |-> cache]

\* mutant: the cache file is never found (a wrong CACHE_FILE path)
LoadCacheWrongPath(f) == EmptyMap

\* _load_cache: {} when the file is missing or json.load raises
_load_cache(f) == IF f.state = "json" THEN f.data ELSE EmptyMap

Record(video_id, video_title, timestamps, created_at) ==
    [video_id |-> video_id, video_title |-> video_title,
     timestamps |-> timestamps, created_at |-> created_at]

NoRecord == Record(<<>>, <<>>, JNull, 0)

\* mutant: a corrupt file is not read as an empty mapping, the lookup yields
\* an empty record for every identifier
GetCachedCorruptFound(video_id, f) ==
    IF f.state = "corrupt" \/ video_id \in DOMAIN f.data
    THEN [found |-> TRUE, data |-> IF f.state = "corrupt" THEN NoRecord ELSE f.data[video_id]]
    ELSE [found |-> FALSE, data |-> NoRecord]

\* get_cached_analysis: the record under video_id of the loaded mapping, or None
get_cached_analysis(video_id, f) ==
    LET cache == _load_cache(f)
    IN  IF video_id \in DOMAIN cache
        THEN [found |-> TRUE, data |-> cache[video_id]]
        ELSE [found |-> FALSE, data |-> NoRecord]

\* mutant: the record is stored under its title
SaveKeyIsTitle(video_id) ==
    <<"Y","o","u","T","u","b","e"," ","V","i","d","e","o"," ","(">> \o video_id \o <<")">>

\* the key under which save_analysis stores the record
SaveKey(video_id) == video_id

\* mutant: the assignment of the new record is lost
AssignNothing(cache, video_id, video_title, timestamps, created_at) == cache

\* mutant: the highlights of an existing record are kept and the new ones appended
AssignMerging(cache, video_id, video_title, timestamps, created_at) ==
    [k \in DOMAIN cache \cup {SaveKey(video_id)} |->
        IF k # SaveKey(video_id) THEN cache[k]
        ELSE IF k \in DOMAIN cache /\ cache[k].timestamps.t = "list" /\ timestamps.t = "list"
        THEN Record(video_id, video_title,
                    JList(cache[k].timestamps.items \o timestamps.items), created_at)
        ELSE Record(video_id, video_title, timestamps, created_at)]

\* mutant: an existing record is kept (dict.setdefault instead of assignment)
AssignKeepsExisting(cache, video_id, video_title, timestamps, created_at) ==
    IF SaveKey(video_id) \in DOMAIN cache
    THEN cache
    ELSE cache @@ (SaveKey(video_id) :> Record(video_id, video_title, timestamps, created_at))

\* save_analysis lines 49-56: the loaded mapping with cache[video_id] assigned
Assign(cache, video_id, video_title, timestamps, created_at) ==
    [k \in DOMAIN cache \cup {SaveKey(video_id)} |->
        IF k = SaveKey(video_id)
        THEN Record(video_id, video_title, timestamps, created_at)
        ELSE cache[k]]

\* _save_cache, open(CACHE_FILE, "w"): truncates the file, or raises and leaves it
OpenForWrite(f, ok) == IF ok THEN FileCorrupt ELSE f

\* _save_cache, json.dump and close: the whole mapping replaces the file's content,
\* or the write raises and leaves a partial file
Dump(cache, ok) == IF ok THEN FileJson(cache) ELSE FileCorrupt

\* what save_analysis returns: _save_cache catches every Exception itself, so
\* the except branch of save_analysis is reached only if an exception escapes
SaveReturn(escaped) == IF escaped THEN "failure" ELSE "success"
SaveCacheEscapes(write_ok) == FALSE

(***************************************************************************)
(* main.py: responses                                                      *)
(***************************************************************************)
NoResponse ==
    [status |-> 0, success |-> FALSE, video_id |-> <<>>, video_title |-> <<>>,
     timestamps |-> <<>>, cached |-> FALSE, detail |-> <<>>]

HTTPException(status_code, detail) ==
    [status |-> status_code, success |-> FALSE, video_id |-> <<>>, video_title |-> <<>>,
     timestamps |-> <<>>, cached |-> FALSE, detail |-> detail]

\* TimestampItem: seconds, time and reason are required fields
TimestampItemValid(h) == h.time # Missing /\ h.reason # Missing

\* timestamps: list[TimestampItem]
TimestampsValid(timestamps) ==
    /\ timestamps.t = "list"
    /\ \A i \in DOMAIN timestamps.items : TimestampItemValid(timestamps.items[i])

\* AnalyzeResponse(success=True, ...): pydantic validates the fields; a
\* ValidationError is no HTTPException, so the server answers 500
AnalyzeResponse(video_id, video_title, timestamps, cached) ==
    IF TimestampsValid(timestamps)
    THEN [status |-> 200, success |-> TRUE, video_id |-> video_id,
          video_title |-> video_title, timestamps |-> timestamps.items,
          cached |-> cached, detail |-> <<>>]
    ELSE HTTPException(500, <<"Internal Server Error">>)

\* f"YouTube Video ({video_id})"
PlaceholderTitle(video_id) ==
    <<"Y","o","u","T","u","b","e"," ","V","i","d","e","o"," ","(">> \o video_id \o <<")">>

\* the response of a cache hit (main.py 88-95 and 146-153)
HitResponse(video_id, data) ==
    AnalyzeResponse(video_id, data.video_title, data.timestamps, TRUE)

(***************************************************************************)
(* Requests.                                                               *)
(***************************************************************************)
IdA == <<"d","Q","w","4","w","9","W","g","X","c","Q">>
IdB == <<"a","b","c","d","e","f","g","h","i","j","k">>
Https == <<"h","t","t","p","s",":","/","/">>

UrlWatchA == Https \o <<"w","w","w",".">> \o WatchMarker \o IdA
UrlShortA == Https \o ShortMarker \o IdA
UrlEmbedB == Https \o <<"w","w","w",".">> \o EmbedMarker \o IdB
UrlBad == Https \o <<"e","x","a","m","p","l","e",".","c","o","m","/","v">>

Urls == {UrlWatchA, UrlShortA, UrlEmbedB, UrlBad}

\* path parameters of GET /api/results/{video_id}
ResultIds == {IdA, IdB}

NoTranscript == TranscriptFailure(<<>>)
NoAi == AiFailure(<<>>, FALSE)

NewRequest(kind, video_id, overlapped) ==
    [kind |-> kind, pc |-> "lookup", video_id |-> video_id,
     cached |-> [found |-> FALSE, data |-> NoRecord],
     transcript_result |-> NoTranscript, ai_result |-> NoAi,
     cache |-> EmptyMap, response |-> NoResponse,
     n_load |-> 0, n_fetch |-> 0, n_analyze |-> 0, n_save |-> 0,
     save |-> "none", save_returned |-> "none", saw |-> 0,
     overlapped |-> overlapped, key |-> api_key]

Done(r, response) == [r EXCEPT !.pc = "done", !.response = response]

InFlight == {i \in DOMAIN reqs : reqs[i].pc # "done"}

\* datetime.utcnow(): a clock that advances with every request received
Now == Len(reqs)

\* a request arrives while those of InFlight are being handled
Arrive(r) ==
    Append([i \in DOMAIN reqs |->
               IF i \in InFlight THEN [reqs[i] EXCEPT !.overlapped = TRUE] ELSE reqs[i]],
           r)

\* mutant: the handler goes on without an identifier
AfterExtractUnchecked(r) == r

\* main.py 79-83: if not video_id: raise HTTPException(400)
AfterExtract(r) ==
    IF r.video_id = NotFound
    THEN Done(r, HTTPException(400, <<"Invalid YouTube URL. Please provide a valid YouTube video link.">>))
    ELSE r

\* mutant: a failed transcript fetch is passed on to the engine
AfterFetchUnchecked(r) == [r EXCEPT !.pc = "analyze"]

\* main.py 99-103: if not transcript_result["success"]: raise HTTPException(400)
AfterFetch(r) ==
    IF ~r.transcript_result.success
    THEN Done(r, HTTPException(400, r.transcript_result.error))
    ELSE [r EXCEPT !.pc = "analyze"]

\* mutant: a failed analysis is tried once more
AfterAiRetry(r) ==
    IF ~r.ai_result.success
    THEN IF r.n_analyze < 2 THEN r ELSE Done(r, HTTPException(500, r.ai_result.error))
    ELSE [r EXCEPT !.pc = "save_load"]

\* mutant: a failed analysis is saved and answered like a successful one
AfterAiUnchecked(r) == [r EXCEPT !.pc = "save_load"]

\* main.py 110-114: if not ai_result["success"]: raise HTTPException(500)
AfterAi(r) ==
    IF ~r.ai_result.success
    THEN Done(r, HTTPException(500, r.ai_result.error))
    ELSE [r EXCEPT !.pc = "save_load"]

\* no service function is being called on its own
NoProbe == [fn |-> "none", done |-> TRUE]

Init ==
    /\ file = FileAbsent
    /\ api_key \in BOOLEAN
    /\ reqs = <<>>
    /\ writeLog = <<>>
    /\ probe = NoProbe

\* POST /api/analyze arrives; step 1, extract_video_id (main.py 77-83)
AnalyzeStart(url) ==
    /\ Len(reqs) < MaxReq
    /\ Cardinality(InFlight) < MaxInFlight
    /\ reqs' = Arrive(AfterExtract(NewRequest("analyze", extract_video_id(url), InFlight # {})))
    /\ UNCHANGED <<file, api_key, writeLog, probe>>

\* step 2, get_cached_analysis and the cached response (main.py 85-95)
AnalyzeLookup(i) ==
    /\ reqs[i].kind = "analyze" /\ reqs[i].pc = "lookup"
    /\ LET cached == get_cached_analysis(reqs[i].video_id, file)
           r == [reqs[i] EXCEPT !.cached = cached, !.n_load = @ + 1]
       IN  reqs' = [reqs EXCEPT ![i] =
                       IF cached.found
                       THEN Done(r, HitResponse(r.video_id, cached.data))
                       ELSE [r EXCEPT !.pc = "fetch"]]
    /\ UNCHANGED <<file, api_key, writeLog, probe>>

\* step 3, fetch_transcript (main.py 97-103)
AnalyzeFetch(i, outcome) ==
    /\ reqs[i].kind = "analyze" /\ reqs[i].pc = "fetch"
    /\ reqs' = [reqs EXCEPT ![i] =
                   AfterFetch([@ EXCEPT !.transcript_result = fetch_transcript(outcome),
                                        !.n_fetch = @ + 1])]
    /\ UNCHANGED <<file, api_key, writeLog, probe>>

\* step 4, analyze_transcript (main.py 105-114)
AnalyzeAi(i, reply) ==
    /\ reqs[i].kind = "analyze" /\ reqs[i].pc = "analyze"
    /\ reqs' = [reqs EXCEPT ![i] =
                   AfterAi([@ EXCEPT !.ai_result =
                                         analyze_transcript(reqs[i].transcript_result.text,
                                                            reqs[i].transcript_result.transcript,
                                                            api_key, reply),
                                     !.n_analyze = @ + 1])]
    /\ UNCHANGED <<file, api_key, writeLog, probe>>

\* step 5 begins: save_analysis loads the file and assigns its record (database.py 49-56)
SaveLoad(i) ==
    /\ reqs[i].kind = "analyze" /\ reqs[i].pc = "save_load"
    /\ reqs' = [reqs EXCEPT ![i] =
                   [@ EXCEPT !.pc = "save_open",
                             !.n_save = @ + 1,
                             !.n_load = @ + 1,
                             !.saw = Len(writeLog),
                             !.save = "loaded",
                             !.cache = Assign(_load_cache(file), reqs[i].video_id,
                                              PlaceholderTitle(reqs[i].video_id),
                                              reqs[i].ai_result.timestamps, Now)]]
    /\ UNCHANGED <<file, api_key, writeLog, probe>>

\* steps 5-6 end: save_analysis returns (its locals are gone) and the response
\* is built (main.py 120-129)
Respond(r, save, write_ok) ==
    Done([r EXCEPT !.save = save, !.cache = EmptyMap, !.saw = 0,
                   !.save_returned = SaveReturn(SaveCacheEscapes(write_ok))],
         AnalyzeResponse(r.video_id, PlaceholderTitle(r.video_id),
                         r.ai_result.timestamps, FALSE))

\* _save_cache opens the file for writing (database.py 30)
SaveOpen(i, ok) ==
    /\ reqs[i].kind = "analyze" /\ reqs[i].pc = "save_open"
    /\ file' = OpenForWrite(file, ok)
    /\ reqs' = [reqs EXCEPT ![i] =
                   IF ok THEN [@ EXCEPT !.pc = "save_dump", !.save = "opened"]
                   ELSE Respond(@, "open_failed", FALSE)]
    /\ UNCHANGED <<api_key, writeLog, probe>>

\* _save_cache writes the mapping and closes the file (database.py 31)
SaveDump(i, ok) ==
    /\ reqs[i].kind = "analyze" /\ reqs[i].pc = "save_dump"
    /\ file' = Dump(reqs[i].cache, ok)
    /\ writeLog' = IF ok THEN Append(writeLog, i) ELSE writeLog
    /\ reqs' = [reqs EXCEPT ![i] =
                   Respond(@, IF ok THEN "dumped" ELSE "dump_failed", ok)]
    /\ UNCHANGED <<api_key, probe>>

\* GET /api/results/{video_id} (main.py 132-153)
GetResults(video_id) ==
    /\ Len(reqs) < MaxReq
    /\ LET cached == get_cached_analysis(video_id, file)
           r == [NewRequest("results", video_id, InFlight # {})
                    EXCEPT !.cached = cached, !.n_load = 1]
       IN  reqs' = Arrive(IF ~cached.found
                          THEN Done(r, HTTPException(404, <<"No analysis found for this video. Use /api/analyze to analyze it first.">>))
                          ELSE Done(r, HitResponse(video_id, cached.data)))
    /\ UNCHANGED <<file, api_key, writeLog, probe>>

Next ==
    \/ \E url \in Urls : AnalyzeStart(url)
    \/ \E i \in DOMAIN reqs : AnalyzeLookup(i)
    \/ \E i \in DOMAIN reqs : \E outcome \in ProviderOutcomes : AnalyzeFetch(i, outcome)
    \/ \E i \in DOMAIN reqs : \E reply \in EngineReplies : AnalyzeAi(i, reply)
    \/ \E i \in DOMAIN reqs : SaveLoad(i)
    \/ \E i \in DOMAIN reqs : \E ok \in BOOLEAN : SaveOpen(i, ok)
    \/ \E i \in DOMAIN reqs : \E ok \in BOOLEAN : SaveDump(i, ok)
    \/ \E video_id \in ResultIds : GetResults(video_id)

Spec == Init /\ [][Next]_vars

\* The server is restarted between requests with another environment: ai.py
\* reads OPENROUTER_API_KEY again (ai.py 12-14); cache.json stays as it is.
Restart ==
    /\ InFlight = {}
    /\ api_key' = ~api_key
    /\ UNCHANGED <<file, reqs, writeLog, probe>>

NextRestart ==
    \/ \E url \in Urls : AnalyzeStart(url)
    \/ \E i \in DOMAIN reqs : AnalyzeLookup(i)
    \/ \E i \in DOMAIN reqs : \E outcome \in ProviderOutcomes : AnalyzeFetch(i, outcome)
    \/ \E i \in DOMAIN reqs : \E reply \in EngineReplies : AnalyzeAi(i, reply)
    \/ \E i \in DOMAIN reqs : SaveLoad(i)
    \/ \E i \in DOMAIN reqs : \E ok \in BOOLEAN : SaveOpen(i, ok)
    \/ \E i \in DOMAIN reqs : \E ok \in BOOLEAN : SaveDump(i, ok)
    \/ \E video_id \in ResultIds : GetResults(video_id)
    \/ Restart

SpecRestart == Init /\ [][NextRestart]_vars

(***************************************************************************)
(* Properties.                                                             *)
(***************************************************************************)
Analyze(i) == reqs[i].kind = "analyze"
Finished(i) == reqs[i].pc = "done"

InvalidUrlMessage == <<"Invalid YouTube URL. Please provide a valid YouTube video link.">>

\* the request made no call to the transcript provider or the engine and no cache write
NoFurtherStep(r) ==
    r.n_fetch = 0 /\ r.n_analyze = 0 /\ r.n_save = 0 /\ r.save = "none"

\* the response is the stored record, marked as served from the cache
ServedFromCache(r) ==
    /\ r.response.status = 200
    /\ r.response.success
    /\ r.response.cached
    /\ r.response.video_id = r.video_id
    /\ r.response.video_title = r.cached.data.video_title
    /\ r.cached.data.timestamps.t = "list"
    /\ r.response.timestamps = r.cached.data.timestamps.items

\* C1: an analyze request whose cache lookup finds a record responds 200 with
\* cached=true and the stored title and highlights, and calls neither the
\* transcript provider nor the engine nor the cache write.
C1_CacheHitServesStoredRecord ==
    \A i \in DOMAIN reqs :
        (Analyze(i) /\ Finished(i) /\ reqs[i].cached.found) =>
            (ServedFromCache(reqs[i]) /\ NoFurtherStep(reqs[i]))

\* what holds of C1 on the code: the hit path makes no further step, and serves
\* the stored record when its highlight list fits the response model
CacheHit_WhenRecordFitsResponseModel ==
    \A i \in DOMAIN reqs :
        (Analyze(i) /\ Finished(i) /\ reqs[i].cached.found) =>
            /\ NoFurtherStep(reqs[i])
            /\ TimestampsValid(reqs[i].cached.data.timestamps) => ServedFromCache(reqs[i])

\* two analyze calls for the same identifier, one right after the other, with no
\* other request during either
Consecutive(i, j) ==
    /\ j = i + 1
    /\ Analyze(i) /\ Analyze(j) /\ Finished(i) /\ Finished(j)
    /\ ~reqs[i].overlapped /\ ~reqs[j].overlapped
    /\ reqs[i].video_id # NotFound
    /\ reqs[i].video_id = reqs[j].video_id

\* C2 (as stated): of any two consecutive analyze calls for the same identifier,
\* the second returns the stored record with cached=true and the engine is
\* invoked at most once across both.
C2_SecondCallAlwaysCached ==
    \A i, j \in DOMAIN reqs :
        Consecutive(i, j) =>
            /\ reqs[j].cached.found
            /\ ServedFromCache(reqs[j])
            /\ reqs[i].n_analyze + reqs[j].n_analyze <= 1

\* the first call answered 200 and its record is in the store when it returns
LeftRecord(r) ==
    /\ r.response.status = 200
    /\ r.response.cached \/ r.save = "dumped"

\* C2 (amended): when the first of two consecutive analyze calls for the same
\* identifier answered 200 and left its record in the store, the second returns
\* that record with cached=true (the title and highlights the first call
\* returned) and the engine is invoked at most once across both.
C2_SecondCallCachedAfterStoredSuccess ==
    \A i, j \in DOMAIN reqs :
        (Consecutive(i, j) /\ LeftRecord(reqs[i])) =>
            /\ reqs[j].cached.found
            /\ ServedFromCache(reqs[j])
            /\ reqs[j].response.video_title = reqs[i].response.video_title
            /\ reqs[j].response.timestamps = reqs[i].response.timestamps
            /\ reqs[j].n_analyze = 0
            /\ reqs[i].n_analyze + reqs[j].n_analyze <= 1

C2_Witness ==
    \E i, j \in DOMAIN reqs :
        /\ Consecutive(i, j)
        /\ reqs[i].save = "dumped"
        /\ reqs[i].response.status = 200
        /\ reqs[i].n_analyze = 1
        /\ reqs[j].response.cached
        /\ reqs[j].response.timestamps = <<H90, H0, H0>>

\* C3: when a request completes its write of the store it loaded before another
\* request (for a different identifier, answered 200) wrote its record, the
\* rewrite discards that record: both requests answered success and the store
\* holds only the second writer's record of the two.
C3_SecondWriterDiscardsFirst ==
    [][\A i, j \in DOMAIN reqs :
          ( /\ reqs[j].pc = "save_dump"
            /\ reqs'[j].save = "dumped"
            /\ reqs[i].save = "dumped"
            /\ reqs[i].response.status = 200
            /\ reqs'[j].response.status = 200
            /\ \E p \in (reqs[j].saw + 1)..Len(writeLog) : writeLog[p] = i
            /\ reqs[i].video_id \notin DOMAIN reqs[j].cache )
          => ( /\ file'.state = "json"
               /\ reqs[j].video_id \in DOMAIN file'.data
               /\ reqs[i].video_id \notin DOMAIN file'.data )]_vars

C3_Witness ==
    \E i, j \in DOMAIN reqs :
        /\ Analyze(i) /\ Analyze(j) /\ Finished(i) /\ Finished(j)
        /\ reqs[i].video_id # reqs[j].video_id
        /\ reqs[i].response.status = 200 /\ ~reqs[i].response.cached
        /\ reqs[j].response.status = 200 /\ ~reqs[j].response.cached
        /\ reqs[i].save = "dumped" /\ reqs[j].save = "dumped"
        /\ writeLog = <<i, j>>
        /\ file.state = "json"
        /\ DOMAIN file.data = {reqs[j].video_id}

\* C4: after a successful analysis the response is 200 with cached=false and
\* the engine's highlights, whether the cache write succeeded or failed.
C4_SuccessWhateverPersistence ==
    \A i \in DOMAIN reqs :
        (Analyze(i) /\ Finished(i) /\ reqs[i].ai_result.success) =>
            /\ reqs[i].response.status = 200
            /\ reqs[i].response.success
            /\ ~reqs[i].response.cached
            /\ reqs[i].ai_result.timestamps.t = "list"
            /\ reqs[i].response.timestamps = reqs[i].ai_result.timestamps.items

\* what holds of C4 on the code: the response does not depend on the outcome
\* of the cache write
Persistence_DoesNotChangeResponse ==
    \A i \in DOMAIN reqs :
        (Analyze(i) /\ Finished(i) /\ reqs[i].ai_result.success) =>
            reqs[i].response = AnalyzeResponse(reqs[i].video_id,
                                               PlaceholderTitle(reqs[i].video_id),
                                               reqs[i].ai_result.timestamps, FALSE)

\* C5: save_analysis returns success only when the record was written to the
\* backing store and failure whenever the write failed.
C5_PutReportsOutcome ==
    \A i \in DOMAIN reqs :
        (reqs[i].save_returned # "none") =>
            (reqs[i].save_returned = "success" <=> reqs[i].save = "dumped")

\* C6: on a cache miss, a transcript-provider failure ends the request with
\* 400 and the provider's classified message; the engine is not called and the
\* cache is not written.
C6_TranscriptFailureIs400 ==
    \A i \in DOMAIN reqs :
        (Analyze(i) /\ reqs[i].n_fetch > 0 /\ ~reqs[i].transcript_result.success) =>
            /\ Finished(i)
            /\ reqs[i].response.status = 400
            /\ reqs[i].response.detail = reqs[i].transcript_result.error
            /\ reqs[i].response.detail # <<>>
            /\ reqs[i].n_analyze = 0
            /\ reqs[i].n_save = 0 /\ reqs[i].save = "none"

C6_Witness ==
    \E i \in DOMAIN reqs :
        /\ Analyze(i) /\ Finished(i)
        /\ reqs[i].n_fetch = 1 /\ ~reqs[i].cached.found
        /\ reqs[i].response.status = 400
        /\ reqs[i].response.detail = <<"Transcripts are disabled for this video.">>

\* C7: an analysis-engine failure ends the request with 500 and the engine's
\* message, and the request does not write the cache.
C7_EngineFailureIs500 ==
    \A i \in DOMAIN reqs :
        (Analyze(i) /\ reqs[i].n_analyze > 0 /\ ~reqs[i].ai_result.success) =>
            /\ Finished(i)
            /\ reqs[i].response.status = 500
            /\ reqs[i].response.detail = reqs[i].ai_result.error
            /\ reqs[i].response.detail # <<>>
            /\ reqs[i].n_save = 0 /\ reqs[i].save = "none"

C7_Witness ==
    /\ \E i \in DOMAIN reqs :
        /\ Analyze(i) /\ Finished(i) /\ reqs[i].n_analyze = 1
        /\ reqs[i].response.status = 500
        /\ reqs[i].response.detail = <<"AI request timed out. Please try again.">>
    /\ \E i \in DOMAIN reqs :
        /\ Analyze(i) /\ Finished(i) /\ reqs[i].n_analyze = 1
        /\ reqs[i].response.status = 500
        /\ reqs[i].response.detail = <<"Failed to parse AI response: ", "Expecting value">>

\* C8: when extract_video_id finds no identifier the request fails with 400
\* before any further step: no cache read or write, no provider or engine call.
C8_InvalidUrlFailsFirst ==
    \A i \in DOMAIN reqs :
        (Analyze(i) /\ reqs[i].video_id = NotFound) =>
            /\ Finished(i)
            /\ reqs[i].response.status = 400
            /\ reqs[i].response.detail = InvalidUrlMessage
            /\ reqs[i].n_load = 0
            /\ NoFurtherStep(reqs[i])

C8_Witness ==
    \E i \in DOMAIN reqs :
        /\ Analyze(i) /\ Finished(i) /\ reqs[i].video_id = NotFound
        /\ reqs[i].response.status = 400
        /\ file.state = "json"

\* C9: get_results answers with the stored record marked cached=true on a hit
\* and 404 on a miss, and never calls the provider or the engine nor writes
\* the cache.
C9_ResultsIsPureLookup ==
    \A i \in DOMAIN reqs :
        (reqs[i].kind = "results") =>
            /\ Finished(i)
            /\ NoFurtherStep(reqs[i])
            /\ reqs[i].cached.found => ServedFromCache(reqs[i])
            /\ ~reqs[i].cached.found => reqs[i].response.status = 404

\* C10: every identifier in the cache store maps to one record whose
\* identifier field is its key.
C10_RecordMatchesKey ==
    \A k \in DOMAIN file.data : file.data[k].video_id = k

C10_Witness ==
    /\ file.state = "json"
    /\ DOMAIN file.data = {IdA, IdB}

\* the record read back for r's identifier is the record r built
ReadsBack(r, f) ==
    LET got == get_cached_analysis(r.video_id, f)
    IN  /\ got.found
        /\ got.data.video_id = r.video_id
        /\ got.data.video_title = PlaceholderTitle(r.video_id)
        /\ got.data.timestamps = r.ai_result.timestamps

\* save_analysis returns to its caller in this step
PutReturns(i) ==
    /\ reqs[i].pc \in {"save_open", "save_dump"}
    /\ reqs'[i].pc = "done"

\* C11: after save_analysis has written its record (the write of the store
\* completed), get_cached_analysis for the same identifier, with no other
\* writer in between, returns a record whose identifier, title and highlight
\* list are those that were put, whether or not a record for the identifier
\* existed before: an earlier record is replaced in full.
C11_PutThenGetRoundTrip ==
    [][\A i \in DOMAIN reqs :
          (PutReturns(i) /\ reqs'[i].save = "dumped")
          => ReadsBack(reqs[i], file')]_vars

\* the second of two writes for one identifier replaced a different record
C11_Witness ==
    \E i, j \in DOMAIN reqs :
        /\ i # j /\ Analyze(i) /\ Analyze(j)
        /\ reqs[i].video_id = reqs[j].video_id
        /\ reqs[i].ai_result.timestamps # reqs[j].ai_result.timestamps
        /\ writeLog = <<i, j>>
        /\ reqs[j].save = "dumped"
        /\ ReadsBack(reqs[j], file)
        /\ ~ReadsBack(reqs[i], file)

\* C12: while the cache file is corrupt, get_cached_analysis finds no record
\* for any identifier; an analyze request that looks up in that state goes on
\* to the transcript fetch as a cache miss, with no response yet, and a results
\* request in that state is answered 404: no fault reaches the caller.
C12_CorruptStoreReadsAbsent ==
    [][file.state = "corrupt" =>
          /\ \A id \in ResultIds : get_cached_analysis(id, file) = [found |-> FALSE, data |-> NoRecord]
          /\ \A i \in DOMAIN reqs :
                (reqs[i].pc = "lookup" /\ reqs'[i].pc # "lookup")
                => /\ reqs'[i].pc = "fetch"
                   /\ ~reqs'[i].cached.found
                   /\ reqs'[i].response = NoResponse
          /\ (Len(reqs') > Len(reqs) /\ reqs'[Len(reqs')].kind = "results")
                => reqs'[Len(reqs')].response.status = 404]_vars

\* the last request arrived when the store was already corrupt and nothing
\* else was running, looked up and went on as a miss
C12_Witness ==
    /\ file.state = "corrupt"
    /\ Len(reqs) > 1
    /\ \A i \in 1..(Len(reqs) - 1) : Finished(i)
    /\ LET r == reqs[Len(reqs)]
       IN  /\ r.kind = "analyze" /\ ~r.overlapped
           /\ r.pc = "fetch" /\ r.n_load = 1 /\ ~r.cached.found

\* the position of a request in the pipeline of analyze_video
StepRank(pc) ==
    CASE pc = "lookup" -> 1
      [] pc = "fetch" -> 2
      [] pc = "analyze" -> 3
      [] pc = "save_load" -> 4
      [] pc = "save_open" -> 5
      [] pc = "save_dump" -> 6
      [] pc = "done" -> 7

\* what one analyze request has done so far, in pipeline order and once each
InOrderOnce(r) ==
    /\ r.n_fetch <= 1 /\ r.n_analyze <= 1 /\ r.n_save <= 1
    /\ r.n_load >= 1 => r.video_id # NotFound
    /\ r.n_fetch = 1 => (r.n_load >= 1 /\ ~r.cached.found)
    /\ r.n_analyze = 1 => (r.n_fetch = 1 /\ r.transcript_result.success)
    /\ r.n_save = 1 => (r.n_analyze = 1 /\ r.ai_result.success)
    /\ (r.n_fetch = 1 /\ ~r.transcript_result.success)
          => (r.pc = "done" /\ r.response.status = 400 /\ r.n_analyze = 0 /\ r.n_save = 0)
    /\ (r.n_analyze = 1 /\ ~r.ai_result.success)
          => (r.pc = "done" /\ r.response.status = 500 /\ r.n_save = 0)
    /\ r.n_fetch = (IF StepRank(r.pc) > 2 /\ ~r.cached.found /\ r.video_id # NotFound THEN 1 ELSE 0)
    /\ (r.pc = "done" /\ ~r.response.cached /\ r.response.status = 200) => r.n_save = 1
    /\ r.pc # "done" => r.response = NoResponse

\* C13: within one analyze request no step is retried and the steps occur only
\* in the order extract, cache lookup, transcript fetch, analysis, cache write,
\* respond: provider, engine and cache write are each invoked at most once,
\* the engine only after a successful fetch, the write only after a successful
\* analysis, and the first failure of an external call ends the request.
C13_NoRetryFixedOrder ==
    /\ [](\A i \in DOMAIN reqs : Analyze(i) => InOrderOnce(reqs[i]))
    /\ [][\A i \in DOMAIN reqs :
             /\ StepRank(reqs'[i].pc) >= StepRank(reqs[i].pc)
             /\ reqs[i].pc = "done" => reqs'[i].response = reqs[i].response
             /\ reqs'[i].n_fetch >= reqs[i].n_fetch
             /\ reqs'[i].n_analyze >= reqs[i].n_analyze
             /\ reqs'[i].n_save >= reqs[i].n_save]_vars

\* one request ran every step once; another ended at its failed engine call
C13_Witness ==
    \E i, j \in DOMAIN reqs :
        /\ Analyze(i) /\ Finished(i) /\ reqs[i].response.status = 200
        /\ reqs[i].n_load = 2 /\ reqs[i].n_fetch = 1 /\ reqs[i].n_analyze = 1 /\ reqs[i].n_save = 1
        /\ Analyze(j) /\ Finished(j) /\ reqs[j].response.status = 500
        /\ reqs[j].n_fetch = 1 /\ reqs[j].n_analyze = 1 /\ reqs[j].n_save = 0
        /\ ~reqs[j].ai_result.success

\* the record request r builds for the store, whatever its creation time
BuiltBy(r, rec) ==
    /\ rec.video_id = r.video_id
    /\ rec.video_title = PlaceholderTitle(r.video_id)
    /\ rec.timestamps = r.ai_result.timestamps

\* requests i and j, and no other, ran for one identifier that the store did not hold
ConcurrentMisses(i, j) ==
    /\ i # j /\ Analyze(i) /\ Analyze(j)
    /\ reqs[i].video_id = reqs[j].video_id
    /\ reqs[i].n_load >= 1 /\ ~reqs[i].cached.found
    /\ reqs[j].n_load >= 1 /\ ~reqs[j].cached.found
    /\ \A k \in DOMAIN reqs \ {i, j} : reqs[k].video_id # reqs[i].video_id

\* C19: when two analyze requests for one identifier both miss the cache and
\* run concurrently, each that answers 200 answers with its own engine
\* result, and a record stored under the identifier is wholly the record built
\* by one of the two, the one whose write completed last: never a mixture.
C19_LastWriterWinsWhole ==
    \A i, j \in DOMAIN reqs :
        ConcurrentMisses(i, j) =>
            /\ (Finished(i) /\ reqs[i].response.status = 200)
                  => /\ ~reqs[i].response.cached
                     /\ reqs[i].response.video_title = PlaceholderTitle(reqs[i].video_id)
                     /\ reqs[i].response.timestamps = reqs[i].ai_result.timestamps.items
            /\ (file.state = "json" /\ reqs[i].video_id \in DOMAIN file.data)
                  => /\ \/ BuiltBy(reqs[i], file.data[reqs[i].video_id])
                        \/ BuiltBy(reqs[j], file.data[reqs[i].video_id])
                     /\ writeLog # <<>>
                     /\ writeLog[Len(writeLog)] \in {i, j}
                           => BuiltBy(reqs[writeLog[Len(writeLog)]], file.data[reqs[i].video_id])

\* both answered 200 with different results and both wrote: the second
\* writer's record is stored
C19_Witness ==
    \E i, j \in DOMAIN reqs :
        /\ ConcurrentMisses(i, j)
        /\ Finished(i) /\ Finished(j)
        /\ reqs[i].response.status = 200 /\ reqs[j].response.status = 200
        /\ reqs[i].response.timestamps # reqs[j].response.timestamps
        /\ reqs[i].save = "dumped" /\ reqs[j].save = "dumped"
        /\ writeLog = <<j, i>>
        /\ BuiltBy(reqs[i], file.data[reqs[i].video_id])

\* request r called the engine with a configured credential and a transcript
\* of zero segments
ZeroSegmentsAnalysed(r) ==
    /\ r.kind = "analyze" /\ r.key
    /\ r.n_analyze = 1
    /\ r.transcript_result.success
    /\ Len(r.transcript_result.transcript) = 0

\* C20: when the transcript provider succeeds with zero segments and the
\* credential is configured, analyze_transcript returns a failure without
\* sending a request to the remote engine; the analyze request ends with
\* status 500 and the cache store is not written.
C20_ZeroSegmentsFailBeforeEngine ==
    \A i \in DOMAIN reqs :
        ZeroSegmentsAnalysed(reqs[i]) =>
            /\ ~reqs[i].ai_result.success
            /\ ~reqs[i].ai_result.posted
            /\ reqs[i].ai_result.error = <<"AI analysis failed: ", "list index out of range">>
            /\ Finished(i)
            /\ reqs[i].response.status = 500
            /\ reqs[i].response.detail = reqs[i].ai_result.error
            /\ reqs[i].n_save = 0 /\ reqs[i].save = "none"
            /\ \A p \in DOMAIN writeLog : writeLog[p] # i

C20_Witness ==
    \E i \in DOMAIN reqs :
        /\ ZeroSegmentsAnalysed(reqs[i])
        /\ reqs[i].response.status = 500
        /\ file = FileAbsent

NotConfiguredMessage ==
    <<"OpenRouter API key not configured. Please add OPENROUTER_API_KEY to your .env file.">>

\* what a finished analyze request shows when it ran without a credential,
\* apart from the response of a cache hit
MissingKeyElsewhere(r) ==
    /\ r.video_id = NotFound => (r.response.status = 400 /\ NoFurtherStep(r))
    /\ (r.n_fetch = 1 /\ ~r.transcript_result.success)
          => (r.response.status = 400 /\ r.n_analyze = 0 /\ r.n_save = 0)
    /\ (r.n_fetch = 1 /\ r.transcript_result.success)
          => /\ r.response.status = 500
             /\ r.response.detail = NotConfiguredMessage
             /\ r.n_analyze = 1 /\ ~r.ai_result.posted
             /\ r.n_save = 0 /\ r.save = "none"
    /\ r.cached.found => NoFurtherStep(r)

\* C14: with the engine credential absent, an analyze request that hits the
\* cache still returns 200, one that fails extraction or transcript fetch
\* returns 400, and only a cache miss whose transcript fetch succeeded returns
\* 500, with no call sent to the remote engine and no cache write.
C14_MissingKeyFailsOnlyAnalysis ==
    \A i \in DOMAIN reqs :
        (Analyze(i) /\ Finished(i) /\ ~reqs[i].key) =>
            /\ MissingKeyElsewhere(reqs[i])
            /\ reqs[i].cached.found => ServedFromCache(reqs[i])
            /\ reqs[i].response.status = 500
                  => (reqs[i].n_fetch = 1 /\ reqs[i].transcript_result.success)

\* what does hold: the same, for cache hits on records that fit the response model
MissingKey_WhenRecordFitsResponseModel ==
    \A i \in DOMAIN reqs :
        (Analyze(i) /\ Finished(i) /\ ~reqs[i].key) =>
            /\ MissingKeyElsewhere(reqs[i])
            /\ (reqs[i].cached.found /\ TimestampsValid(reqs[i].cached.data.timestamps))
                  => ServedFromCache(reqs[i])
            /\ (reqs[i].response.status = 500 /\ ~reqs[i].cached.found)
                  => (reqs[i].n_fetch = 1 /\ reqs[i].transcript_result.success)

\* a cache hit without a credential, answered 200
MissingKey_HitReached ==
    \E i \in DOMAIN reqs :
        /\ Analyze(i) /\ Finished(i) /\ ~reqs[i].key
        /\ reqs[i].cached.found /\ reqs[i].response.status = 200

(***************************************************************************)
(* analyze_transcript called on its own, over raw outputs of the engine    *)
(* built from a JSON document and what is put around it.                   *)
(***************************************************************************)
NotJson == "I found these moments"

Docs ==
    { "{timestamps: [H0]}", "{timestamps: [H90, H0, H0]}", "{timestamps: [HNoReason]}",
      "{timestamps: null}", "{moments: []}", "[H0]", NotJson }

Wrappers == {"plain", "padded", "fenced", "fenced_json", "prose_before", "prose_then_fence", "two_fences"}

\* message.content of the engine's reply
Wrap(w, doc) ==
    CASE w = "plain" -> <<doc>>
      [] w = "padded" -> <<"\n", doc, " ">>
      [] w = "fenced" -> <<Fence, "\n", doc, "\n", Fence>>
      [] w = "fenced_json" -> <<Fence, "json", "\n", doc, "\n", Fence>>
      [] w = "prose_before" -> <<"Here", " ", doc>>
      [] w = "prose_then_fence" -> <<"Here", "\n", Fence, "json", "\n", doc, "\n", Fence>>
      [] w = "two_fences" -> <<Fence, Fence, doc, Fence, Fence>>

TwoSegments == <<Snippet(Hello, 0, 2), Snippet(World, 2, 3)>>

AiProbes ==
    { [fn |-> "analyze_transcript", done |-> FALSE, wrapper |-> w, doc |-> doc,
       transcript |-> segs, out |-> NoAi] :
        w \in Wrappers, doc \in Docs, segs \in {<<>>, TwoSegments} }

InitAi ==
    /\ file = FileAbsent
    /\ api_key \in BOOLEAN
    /\ reqs = <<>>
    /\ writeLog = <<>>
    /\ probe \in AiProbes

\* the engine answers 200 with the raw output and analyze_transcript returns
AiCall ==
    /\ probe.fn = "analyze_transcript" /\ ~probe.done
    /\ probe' = [probe EXCEPT
                    !.done = TRUE,
                    !.out = analyze_transcript(JoinSpace([i \in DOMAIN probe.transcript |-> probe.transcript[i].text]),
                                               probe.transcript, api_key,
                                               ReplyContent(Wrap(probe.wrapper, probe.doc)))]
    /\ UNCHANGED <<file, api_key, reqs, writeLog>>

NextAi == AiCall

SpecAi == InitAi /\ [][NextAi]_vars

\* by construction: under at most one layer of fence the output is one JSON
\* document, and that document is an object whose "timestamps" is a list
OneLayerOrNone(w) == w \in {"plain", "padded", "fenced", "fenced_json"}
DocParses(doc) == doc # NotJson
DocHoldsHighlightList(doc) ==
    doc \in {"{timestamps: [H0]}", "{timestamps: [H90, H0, H0]}", "{timestamps: [HNoReason]}"}

\* C15: whenever the engine's raw output, after stripping one layer of code
\* fence, is not parseable or is parseable but holds no highlight list,
\* analyze_transcript returns a reported failure, never success.
C15_ParseFailureIsReported ==
    (probe.fn = "analyze_transcript" /\ probe.done)
    => ( ~(OneLayerOrNone(probe.wrapper) /\ DocHoldsHighlightList(probe.doc))
         => (~probe.out.success /\ probe.out.error # <<>>) )

\* what does hold: output that is not one JSON document, or is one that is
\* not an object, is a reported failure; an object gives success with the
\* value under "timestamps", or the empty list when it has no such member
ParseFailure_WhenNotAnObject ==
    (probe.fn = "analyze_transcript" /\ probe.done /\ api_key /\ probe.transcript # <<>>)
    => /\ ~(OneLayerOrNone(probe.wrapper) /\ DocParses(probe.doc))
            => (~probe.out.success /\ probe.out.error[1] = "Failed to parse AI response: ")
       /\ (OneLayerOrNone(probe.wrapper) /\ probe.doc = "[H0]")
            => (~probe.out.success /\ probe.out.error[1] = "AI analysis failed: ")
       /\ (OneLayerOrNone(probe.wrapper) /\ DocHoldsHighlightList(probe.doc))
            => (probe.out.success /\ probe.out.timestamps.t = "list" /\ probe.out.timestamps.items # <<>>)
       /\ (OneLayerOrNone(probe.wrapper) /\ probe.doc = "{moments: []}")
            => (probe.out.success /\ probe.out.timestamps = JList(<<>>))
       /\ (OneLayerOrNone(probe.wrapper) /\ probe.doc = "{timestamps: null}")
            => (probe.out.success /\ probe.out.timestamps = JNull)

(***************************************************************************)
(* fetch_transcript called on its own with a provider that raises, over    *)
(* details made of one or two phrases; each phrase carries the group of    *)
(* the taxonomy it was written for (0: none).                              *)
(***************************************************************************)
Phrase(text, group) == [text |-> text, group |-> group]

Phrases ==
    { Phrase(<<"s","u","b","t","i","t","l","e","s"," ","a","r","e"," ","d","i","s","a","b","l","e","d">>, 1),
      Phrase(<<"T","r","a","n","s","c","r","i","p","t","s"," ","D","I","S","A","B","L","E","D">>, 1),
      Phrase(<<"N","o"," ","t","r","a","n","s","c","r","i","p","t">>, 2),
      Phrase(<<"w","a","s"," ","N","o","t"," ","F","o","u","n","d">>, 2),
      Phrase(<<"V","i","d","e","o"," ","u","n","a","v","a","i","l","a","b","l","e">>, 3),
      Phrase(<<"i","s"," ","P","R","I","V","A","T","E">>, 3),
      Phrase(<<"H","T","T","P"," ","4","2","9">>, 0),
      Phrase(<<"d","i","s","a","b","l","e">>, 0),
      Phrase(<<"n","o","t","f","o","u","n","d">>, 0) }

\* str(e) of the exception
DetailOf(phrases) ==
    IF Len(phrases) = 1 THEN phrases[1].text
    ELSE phrases[1].text \o <<";"," ">> \o phrases[2].text

FetchProbes ==
    { [fn |-> "fetch_transcript", done |-> FALSE, phrases |-> ps,
       out |-> NoTranscript, response |-> NoResponse] :
        ps \in {<<p>> : p \in Phrases} \cup {<<p, q>> : p, q \in Phrases} }

InitFetch ==
    /\ file = FileAbsent
    /\ api_key \in BOOLEAN
    /\ reqs = <<>>
    /\ writeLog = <<>>
    /\ probe \in FetchProbes

\* the provider raises, fetch_transcript returns and analyze_video answers
FetchCall ==
    /\ probe.fn = "fetch_transcript" /\ ~probe.done
    /\ LET transcript_result == fetch_transcript(ProviderRaises(DetailOf(probe.phrases)))
           r == [NewRequest("analyze", IdA, FALSE) EXCEPT
                    !.pc = "fetch", !.n_load = 1, !.n_fetch = 1,
                    !.transcript_result = transcript_result]
       IN  probe' = [probe EXCEPT !.done = TRUE,
                                  !.out = transcript_result,
                                  !.response = AfterFetch(r).response]
    /\ UNCHANGED <<file, api_key, reqs, writeLog>>

NextFetch == FetchCall

SpecFetch == InitFetch /\ [][NextFetch]_vars

\* the groups the phrases of a detail were written for
GroupsOf(phrases) == {phrases[i].group : i \in DOMAIN phrases}

\* the kind the taxonomy gives: the earliest group present
KindOf(phrases) ==
    IF 1 \in GroupsOf(phrases) THEN "Disabled"
    ELSE IF 2 \in GroupsOf(phrases) THEN "NotFound"
    ELSE IF 3 \in GroupsOf(phrases) THEN "VideoUnavailable"
    ELSE "OtherFetchError"

KindMessage(kind, detail) ==
    CASE kind = "Disabled" -> <<"Transcripts are disabled for this video.">>
      [] kind = "NotFound" -> <<"No transcript found for this video. It might not have captions.">>
      [] kind = "VideoUnavailable" -> <<"Video is unavailable. It might be private or deleted.">>
      [] kind = "OtherFetchError" -> <<"Failed to fetch transcript: ", detail>>

\* C16: every failure of the transcript provider is mapped to exactly one kind
\* by case-insensitive substring tests on its detail, in the priority
\* Disabled, NotFound, VideoUnavailable, OtherFetchError (with the detail);
\* a detail matching several groups gets the earliest kind, and the analyze
\* response is 400 with that kind's message.
C16_FailureKindByPriority ==
    (probe.fn = "fetch_transcript" /\ probe.done)
    => /\ ~probe.out.success
       /\ probe.out.error = KindMessage(KindOf(probe.phrases), DetailOf(probe.phrases))
       /\ probe.response.status = 400
       /\ probe.response.detail = probe.out.error

\* a detail written in capitals for two groups got the earlier kind
C16_Witness ==
    /\ probe.fn = "fetch_transcript" /\ probe.done
    /\ probe.phrases = <<Phrase(<<"i","s"," ","P","R","I","V","A","T","E">>, 3), Phrase(<<"T","r","a","n","s","c","r","i","p","t","s"," ","D","I","S","A","B","L","E","D">>, 1)>>
    /\ probe.out.error = <<"Transcripts are disabled for this video.">>
    /\ probe.response.status = 400

(***************************************************************************)
(* extract_video_id called on its own, over strings made of one or two     *)
(* parts joined by "&"; each part is a host and path (one of the three     *)
(* recognised forms, or another site) followed by a token.                 *)
(***************************************************************************)
Forms == {"watch", "short", "embed", "other"}

FormText(form) ==
    CASE form = "watch" -> Https \o <<"w","w","w",".">> \o WatchMarker
      [] form = "short" -> Https \o ShortMarker
      [] form = "embed" -> Https \o <<"w","w","w",".">> \o EmbedMarker
      [] form = "other" -> Https \o <<"v","i","m","e","o",".","c","o","m","/","v","/">>

\* tokens: two identifiers, one that is too short, one with a character
\* outside [a-zA-Z0-9_-], and one of twelve characters
TooShort == <<"d","Q","w","4","w","9","W","g","X","c">>
BadChar == <<"d","Q","w","4","w","!","W","g","X","c","Q">>
Twelve == IdB \o <<"Z">>
Tokens == {IdA, IdB, TooShort, BadChar, Twelve}

Part(form, token) == [form |-> form, token |-> token]
Parts == {Part(form, token) : form \in Forms, token \in Tokens}

UrlOf(parts) ==
    IF Len(parts) = 1 THEN FormText(parts[1].form) \o parts[1].token
    ELSE FormText(parts[1].form) \o parts[1].token \o <<"&">>
         \o FormText(parts[2].form) \o parts[2].token

ExtractProbes ==
    { [fn |-> "extract_video_id", done |-> FALSE, parts |-> ps, out |-> NotFound] :
        ps \in {<<p>> : p \in Parts} \cup {<<p, q>> : p, q \in Parts} }

InitExtract ==
    /\ file = FileAbsent
    /\ api_key \in BOOLEAN
    /\ reqs = <<>>
    /\ writeLog = <<>>
    /\ probe \in ExtractProbes

ExtractCall ==
    /\ probe.fn = "extract_video_id" /\ ~probe.done
    /\ probe' = [probe EXCEPT !.done = TRUE, !.out = extract_video_id(UrlOf(probe.parts))]
    /\ UNCHANGED <<file, api_key, reqs, writeLog>>

NextExtract == ExtractCall

SpecExtract == InitExtract /\ [][NextExtract]_vars

\* by construction: a part is a recognised shape when its form is one of the
\* three and its token begins with eleven identifier characters
Recognised(part) ==
    part.form # "other" /\ part.token \in {IdA, IdB, Twelve}

FormPriority(form) ==
    CASE form = "watch" -> 1 [] form = "short" -> 2 [] form = "embed" -> 3 [] form = "other" -> 4

\* the token the claim names: that of the recognised part whose form has the
\* highest priority, the leftmost of them, cut to eleven characters
ExpectedToken(parts) ==
    LET rec == {i \in DOMAIN parts : Recognised(parts[i])}
    IN  IF rec = {} THEN NotFound
        ELSE LET best == CHOOSE i \in rec :
                             \A j \in rec :
                                 \/ FormPriority(parts[i].form) < FormPriority(parts[j].form)
                                 \/ /\ FormPriority(parts[i].form) = FormPriority(parts[j].form)
                                    /\ i <= j
             IN  SubSeq(parts[best].token, 1, 11)

\* C17: extract_video_id returns the 11-character token following the
\* highest-priority recognised marker that matches (watch-page form, then
\* short-link form, then embed form), so the three shapes built from one
\* token yield that token; it returns NotFound exactly when no shape matches.
C17_ExtractByPriority ==
    /\ (probe.fn = "extract_video_id" /\ probe.done)
          => /\ probe.out = ExpectedToken(probe.parts)
             /\ probe.out = NotFound <=> \A i \in DOMAIN probe.parts : ~Recognised(probe.parts[i])
             /\ probe.out # NotFound => Len(probe.out) = 11
    /\ \A token \in {IdA, IdB} : \A form \in Forms \ {"other"} :
          extract_video_id(FormText(form) \o token) = token

\* an embed link followed by a watch link: the watch link's token is returned
C17_Witness ==
    /\ probe.fn = "extract_video_id" /\ probe.done
    /\ probe.parts = <<Part("embed", IdB), Part("watch", IdA)>>
    /\ probe.out = IdA

\* the response of request r (after) to its own analysis, and the store f
\* holding the same identifier, title and highlight list
FreshResponseAndRecord(r, after, f) ==
    /\ after.response.status = 200
    /\ after.response.success
    /\ ~after.response.cached
    /\ after.response.video_id = r.video_id
    /\ after.response.video_title = PlaceholderTitle(r.video_id)
    /\ after.response.timestamps = r.ai_result.timestamps.items
    /\ f.state = "json"
    /\ r.video_id \in DOMAIN f.data
    /\ f.data[r.video_id].video_id = after.response.video_id
    /\ f.data[r.video_id].video_title = after.response.video_title
    /\ f.data[r.video_id].timestamps = JList(after.response.timestamps)

\* C18: when the transcript fetch, the analysis and the cache write of a
\* cache-miss request all succeeded, the response is cached=false with the
\* placeholder title and the engine's highlight list as returned, and the
\* store then holds a record with the response's identifier, title and list.
C18_MissRespondsAndStores ==
    [][\A i \in DOMAIN reqs :
          ( /\ PutReturns(i) /\ reqs'[i].save = "dumped"
            /\ reqs[i].transcript_result.success
            /\ reqs[i].ai_result.success )
          => FreshResponseAndRecord(reqs[i], reqs'[i], file')]_vars

\* what does hold: the same, when the engine's items fit the response model
MissRespondsAndStores_WhenItemsFitResponseModel ==
    [][\A i \in DOMAIN reqs :
          ( /\ PutReturns(i) /\ reqs'[i].save = "dumped"
            /\ reqs[i].transcript_result.success
            /\ reqs[i].ai_result.success
            /\ TimestampsValid(reqs[i].ai_result.timestamps) )
          => FreshResponseAndRecord(reqs[i], reqs'[i], file')]_vars

============================================================================
